---- MODULE Spec2Model ----
(***************************************************************************)
(* SNSProducer (src/src/sns-producer.ts, lines 120-271) and                *)
(* AutoSNSProducer (src/src/auto-sns-producer.ts, lines 262-368).          *)
(*                                                                         *)
(* One AutoSNSProducer owns a MessageBatcher (the buffer and the timer), a *)
(* PromiseCollector (the in-flight set) and an SNSProducer.  The same      *)
(* SNSProducer code also serves manual publishBatch calls.  A step of the  *)
(* model is one JavaScript task: a synchronous handler, or the settlement  *)
(* of a remote send together with the promise reactions that follow it.    *)
(*                                                                         *)
(* MessageBatcher and PromiseCollector are packages the repository imports *)
(* (package.json, dependencies); their behaviour is taken from the         *)
(* specification, sections 4.1 and 4.2.                                    *)
(***************************************************************************)
EXTENDS Integers, Sequences, FiniteSets, TLC

(* ------------------------------ bounds --------------------------------- *)

\* Items ever handed to add.
MaxItems == 3

\* Length of the input of a manual publishBatch.
MaxMessages == 5

\* Manual publishBatch invocations.
MaxPublishCalls == 1

\* flush() and onModuleDestroy() invocations.
MaxFlushCalls == 1

\* Send calls of a long-lived SNSProducer.
MaxSends == 12

\* Of them, those that fail in part or reject.
MaxFaults == 2

\* Emissions under an event name other than the configured one.
MaxOtherEmissions == 2

\* options.maxBatchSize as configured (the default is 10).
maxBatchSize == 2

(* --------------------------- program constants ------------------------- *)

MAX_VERBOSE_LOG_COUNT == 10

\* SNSProducer.BATCH_SIZE of the earlier revision, which no option changed.
BATCH_SIZE == 10

\* The error send call s rejects with when it rejects, and no error.
ErrorOf(s) == "E" \o ToString(s)

NoError == "none"

VARIABLES
    instance,         \* the class instantiated: SNSProducer or AutoSNSProducer
    options,          \* SNSProducerOptions: verboseBeginning, prepareEntry
    hooks,            \* the lifecycle hooks the host has called
    batcher,          \* MessageBatcher: the buffer and whether the timer is armed
    inflight,         \* PromiseCollector: the operations not settled yet
    pubs,             \* publishBatch invocations, in call order
    sends,            \* awsSns.send calls, in call order
    waiters,          \* flush() / onModuleDestroy() invocations, in call order
    verboseLogCount,  \* SNSProducer.verboseLogCount
    notices,          \* 'Success messages will be logged as debug from now on'
    added,            \* the items passed to add, in order
    eventEmitter,     \* EventEmitter2: listeners and emissions per event name
    creation          \* how the instance was created, and this.awsSns

vars == <<instance, options, hooks, batcher, inflight, pubs, sends, waiters,
          verboseLogCount, notices, added, eventEmitter,
          creation>>

(* ------------------------------ helpers -------------------------------- *)

Range(s) == {s[i] : i \in 1..Len(s)}

RECURSIVE Concat(_)
Concat(ss) == IF ss = <<>> THEN <<>> ELSE Head(ss) \o Concat(Tail(ss))

\* How many times x occurs in sequence s.
Count(s, x) == Cardinality({i \in 1..Len(s) : s[i] = x})

manualPubs == {p \in 1..Len(pubs) : ~pubs[p].auto}

autoPubs == {p \in 1..Len(pubs) : pubs[p].auto}

\* The send calls of publishBatch invocation p, in call order.
chunksOf(p) == SelectSeq(sends, LAMBDA s : s.pub = p)

\* A fresh item: items are numbered in the order they enter the program.
freshItem(k) == Len(Concat([p \in 1..Len(pubs) |-> pubs[p].messages]))
                    + Len(batcher.buffer) + k

(* --------------------- MessageBatcher (imported) ----------------------- *)

\* MessageBatcher.batch(messages, size): contiguous chunks of size items, the
\* last one possibly shorter; no chunk for an empty input.
RECURSIVE batch(_, _)
batch(messages, size) ==
    IF Len(messages) = 0 THEN <<>>
    ELSE IF Len(messages) <= size THEN <<messages>>
    ELSE <<SubSeq(messages, 1, size)>>
            \o batch(SubSeq(messages, size + 1, Len(messages)), size)

\* MessageBatcher.batch takes one item or an array of items.
toArray(messages) ==
    IF messages.isArray THEN messages.items ELSE <<messages.item>>

\* A flush() that hands the buffer to the callback even when it is empty.
batcherFlushAlways(b) ==
    [b |-> [b EXCEPT !.buffer = <<>>], out |-> <<b.buffer>>]

\* batcher.flush(): swap the buffer for an empty one and hand the swapped-out
\* batch to the callback when it is not empty.  out: the callback's calls.
batcherFlush(b) ==
    IF Len(b.buffer) > 0
    THEN [b |-> [b EXCEPT !.buffer = <<>>], out |-> <<b.buffer>>]
    ELSE [b |-> b, out |-> <<>>]

\* batcher.add(message): append, and flush inline once the size is reached.
batcherAdd(b, e) ==
    LET b1 == [b EXCEPT !.buffer = Append(b.buffer, e)]
    IN  IF Len(b1.buffer) >= b.batchSize
        THEN batcherFlush(b1)
        ELSE [b |-> b1, out |-> <<>>]

\* batcher.start(interval) / batcher.stop(): arm and disarm the timer.
batcherStart(b) == [b EXCEPT !.timer = TRUE]

batcherStop(b) == [b EXCEPT !.timer = FALSE]

(* --------------------- PromiseCollector (imported) --------------------- *)

\* pending(): waits for the operations that are in the set at the call.
pending(set) == set

\* The promise of pending() over snapshot snap has resolved: every operation
\* of the snapshot has settled.
pendingSettled(snap) == \A p \in snap : pubs[p].op # "pending"

\* The collector forgets an operation once it has settled, whatever its outcome.
forget(set, p, op) == IF op = "pending" THEN set ELSE set \ {p}

(* ------------------------------ SNSProducer ---------------------------- *)

\* JSON.stringify, the default serializer.
serializer(event) == "json:" \o ToString(event)

\* A caller-supplied serializer.
customSerializer(event) == "custom:" \o ToString(event)

\* this.options.serializer: { ...defaultOptions, ...options }.serializer.
optionsSerializer(event) ==
    IF options.serializer = "custom" THEN customSerializer(event)
    ELSE serializer(event)

\* A caller-supplied prepareEntry(event, index).
prepareEntry(event, index) ==
    [Id |-> "custom-" \o ToString(index), Message |-> ToString(event)]

\* A prepareBatch whose default ids number the items of the whole input (the
\* items of a first call are 1, 2, ...).
prepareBatchGlobalIds(events) ==
    [i \in 1..Len(events) |->
        [Id |-> ToString(events[i] - 1),
         Message |-> optionsSerializer(events[i])]]

\* A prepareBatch that never looks at options.prepareEntry.
prepareBatchSerializerOnly(events) ==
    [i \in 1..Len(events) |->
        [Id |-> ToString(i - 1), Message |-> optionsSerializer(events[i])]]

\* prepareBatch(events): the wire entries of one chunk.
prepareBatch(events) ==
    IF options.prepareEntry
    THEN [i \in 1..Len(events) |-> prepareEntry(events[i], i - 1)]
    ELSE [i \in 1..Len(events) |->
            [Id |-> ToString(i - 1),
             Message |-> optionsSerializer(events[i])]]

\* A verboseLoggingEnabled() that does not look at options.verboseBeginning.
verboseLoggingEnabledWhateverOption(count) == count < MAX_VERBOSE_LOG_COUNT

\* A verboseLoggingEnabled() that allows one batch more.
verboseLoggingEnabledOneMore(count) ==
    options.verboseBeginning /\ count <= MAX_VERBOSE_LOG_COUNT

verboseLoggingEnabled(count) ==
    options.verboseBeginning /\ count < MAX_VERBOSE_LOG_COUNT

\* A countVerboseLogging() that increments without asking
\* verboseLoggingEnabled().
countVerboseLoggingUnguarded(count) ==
    [count |-> count + 1,
     notice |-> IF count + 1 = MAX_VERBOSE_LOG_COUNT THEN 1 ELSE 0]

\* countVerboseLogging(): the counter after it, and whether the notice is logged.
countVerboseLogging(count) ==
    IF verboseLoggingEnabled(count)
    THEN [count |-> count + 1,
          notice |-> IF count + 1 = MAX_VERBOSE_LOG_COUNT THEN 1 ELSE 0]
    ELSE [count |-> count, notice |-> 0]

\* A level chosen by the verbose allowance before the failures are looked at.
logLevelVerboseFirst(r, count) ==
    IF r.kind = "rejected" THEN "error"
    ELSE IF verboseLoggingEnabled(count) THEN "log"
    ELSE IF r.Failed > 0 THEN "warn"
    ELSE "debug"

\* The level doPublishBatch logs the outcome r of its send at.
logLevel(r, count) ==
    IF r.kind = "rejected" THEN "error"
    ELSE IF r.Failed > 0 THEN "warn"
    ELSE IF verboseLoggingEnabled(count) THEN "log"
    ELSE "debug"

\* publishBatch splitting by the fixed BATCH_SIZE, whatever options.maxBatchSize.
publishBatchFixedSize(messages) == batch(messages, BATCH_SIZE)

\* A publishBatch that sends every item in a chunk of its own.
publishBatchOneByOne(messages) == batch(messages, 1)

\* A publishBatch that makes a send call for an empty input too.
publishBatchAtLeastOne(messages) ==
    IF messages = <<>> THEN << <<>> >> ELSE batch(messages, maxBatchSize)

\* publishBatch sending its input unsplit, as one chunk.
publishBatchUnsplit(messages) == <<messages>>

\* publishBatch(messages): the chunks, one doPublishBatch each, in call order.
publishBatch(messages) == batch(messages, maxBatchSize)

\* doPublishBatch(chunk, throws) up to its await: the send call it issues.
doPublishBatch(p, chunk) ==
    [pub |-> p, messages |-> chunk, entries |-> prepareBatch(chunk),
     state |-> "pending", Successful |-> 0, Failed |-> 0, error |-> NoError,
     logged |-> "none", logs |-> <<>>, promise |-> "pending",
     thrown |-> NoError]

\* A publishBatch that issues its first chunk only before it waits.
issueFirstOnly(p, messages) ==
    LET chunks == publishBatch(messages)
    IN  IF chunks = <<>> THEN <<>> ELSE <<doPublishBatch(p, chunks[1])>>

\* The send calls publishBatch invocation p issues for messages.
issue(p, messages) ==
    LET chunks == publishBatch(messages)
    IN  [k \in 1..Len(chunks) |-> doPublishBatch(p, chunks[k])]

\* The outcomes of send call s, of n entries: it returns with no entry failed,
\* it returns with one entry failed, or it rejects with an error of its own.
\* On an instance whose awsSns is undefined, this.awsSns.send throws a
\* TypeError inside the try block, which is a rejection of the call.
Outcomes(s, n) ==
    IF creation.client = "undefined"
    THEN {[kind |-> "rejected", Successful |-> 0, Failed |-> 0,
           error |-> "TypeError"]}
    ELSE
    {[kind |-> "returned", Successful |-> n, Failed |-> 0, error |-> NoError],
     [kind |-> "returned", Successful |-> n - 1, Failed |-> 1, error |-> NoError],
     [kind |-> "rejected", Successful |-> 0, Failed |-> 0, error |-> ErrorOf(s)]}

\* A doPublishBatch that throws for failed entries as it does for a rejection.
catchFailedEntries(r, throws) ==
    IF (r.kind = "rejected" \/ r.Failed > 0) /\ throws
    THEN [promise |-> "rejected", error |-> r.error]
    ELSE [promise |-> "fulfilled", error |-> NoError]

\* A catch block that logs and never throws again.
catchSwallowing(r, throws) == [promise |-> "fulfilled", error |-> NoError]

\* The catch block of doPublishBatch(chunk, throws): how the promise of
\* doPublishBatch settles, and with which error, when its send ends as r.
catch(r, throws) ==
    IF r.kind = "rejected" /\ throws
    THEN [promise |-> "rejected", error |-> r.error]
    ELSE [promise |-> "fulfilled", error |-> NoError]

\* The call of the logger doPublishBatch makes when its send ends as r: the
\* level, the error passed to logger.error and the messageCount argument.
logCall(snd, r, count) ==
    [level |-> logLevel(r, count), error |-> r.error,
     messageCount |-> Len(snd.entries)]

\* A doPublishBatch whose catch block throws again without logging.
settledSilentOnError(snd, r, count) ==
    [snd EXCEPT !.state = r.kind, !.Successful = r.Successful,
                !.Failed = r.Failed, !.error = r.error,
                !.logged = IF r.kind = "rejected" THEN "none"
                           ELSE logLevel(r, count),
                !.logs = IF r.kind = "rejected" THEN @
                         ELSE Append(@, logCall(snd, r, count)),
                !.promise = catch(r, TRUE).promise,
                !.thrown = catch(r, TRUE).error]

\* doPublishBatch(chunk, true) after its await: the send call as settled and
\* logged, and the promise of doPublishBatch with the error it throws.
settled(snd, r, count) ==
    [snd EXCEPT !.state = r.kind, !.Successful = r.Successful,
                !.Failed = r.Failed, !.error = r.error,
                !.logged = logLevel(r, count),
                !.logs = Append(@, logCall(snd, r, count)),
                !.promise = catch(r, TRUE).promise,
                !.thrown = catch(r, TRUE).error]

\* A publishBatch that rejects with the error of the last chunk to reject.
promiseAllLastRejection(pub, snd, ss) ==
    IF pub.state = "resolved" THEN pub
    ELSE IF snd.promise = "rejected"
    THEN [pub EXCEPT !.state = "rejected", !.error = snd.thrown]
    ELSE IF pub.state = "pending"
            /\ \A i \in 1..Len(ss) : ss[i].promise = "fulfilled"
    THEN [pub EXCEPT !.state = "resolved"]
    ELSE pub

\* A publishBatch that resolves with its first fulfilled chunk.
promiseAny(pub, snd, ss) ==
    IF pub.state # "pending" THEN pub
    ELSE IF snd.promise = "rejected"
    THEN [pub EXCEPT !.state = "rejected", !.error = snd.thrown]
    ELSE [pub EXCEPT !.state = "resolved"]

\* await Promise.all(promises): the promise of invocation pub after its chunk
\* snd has settled, ss being the chunks of the invocation as they are then.
promiseAll(pub, snd, ss) ==
    IF pub.state # "pending" THEN pub
    ELSE IF snd.promise = "rejected"
    THEN [pub EXCEPT !.state = "rejected", !.error = snd.thrown]
    ELSE IF \A i \in 1..Len(ss) : ss[i].promise = "fulfilled"
    THEN [pub EXCEPT !.state = "resolved"]
    ELSE pub

\* A new publishBatch invocation, its chunk sends issued.
invocation(auto, messages, chunks) ==
    [auto |-> auto, messages |-> messages,
     state |-> IF chunks = <<>> THEN "resolved" ELSE "pending",
     error |-> NoError,
     op |-> IF ~auto THEN "none"
            ELSE IF chunks = <<>> THEN "resolved" ELSE "pending"]

(* ------------------------------ creation ------------------------------- *)

\* The constructor: this.awsSns is the client the factory returns when it is
\* given a function, and what it is given otherwise, undefined included.
constructor(instanceOrFactory) ==
    IF instanceOrFactory = "factory" THEN "SNSClient" ELSE instanceOrFactory

\* The error of register's useFactory when it is given no client.
mustBeProvided(class) ==
    IF class = "SNSProducer" THEN "Either SNS or SNS_FACTORY must be provided"
    ELSE "Either AWS.SNS or SNS_FACTORY must be provided"

\* A useFactory that constructs the producer whatever it is given.
useFactoryUnchecked(class, awsSns, awsSnsFactory) ==
    LET final == IF awsSnsFactory # "undefined" THEN awsSnsFactory ELSE awsSns
    IN  [instance |-> class, client |-> constructor(final), error |-> NoError]

\* useFactory of register(options), called with the optional injections:
\* final = awsSnsFactory || awsSns; it throws when final is missing and
\* returns the producer constructed with final otherwise.
useFactory(class, awsSns, awsSnsFactory) ==
    LET final == IF awsSnsFactory # "undefined" THEN awsSnsFactory ELSE awsSns
    IN  IF final = "undefined"
        THEN [instance |-> "none", client |-> "none",
              error |-> mustBeProvided(class)]
        ELSE [instance |-> class, client |-> constructor(final),
              error |-> NoError]

(* ----------------------- EventEmitter2 (imported) ---------------------- *)

\* options.eventName, and the event names emissions are made under.
eventName == "eventName"
EventNames == {eventName, "otherEvent"}

\* new EventEmitter2(): no listener, nothing emitted.
newEventEmitter ==
    [listeners |-> [n \in EventNames |-> 0],
     emitted |-> [n \in EventNames |-> 0]]

\* eventEmitter.on(name, listener): one more listener under name.
on(emitter, name) == [emitter EXCEPT !.listeners[name] = @ + 1]

\* eventEmitter.emit(name, value): the emission is made; every listener
\* registered under name is called once with the value.
emit(emitter, name) == [emitter EXCEPT !.emitted[name] = @ + 1]

(* ---------------------------- AutoSNSProducer -------------------------- *)

\* A constructor that listens to every event name.
subscriptionToAnyName(emitter) ==
    [emitter EXCEPT !.listeners = [n \in EventNames |-> 1]]

\* The constructor's eventEmitter.on(this.options.eventName, (e) => this.add(e)).
subscription(emitter) == on(emitter, eventName)

\* A batcher built with the fixed BATCH_SIZE, whatever options.maxBatchSize.
newMessageBatcherFixedSize ==
    [buffer |-> <<>>, batchSize |-> BATCH_SIZE, timer |-> FALSE]

\* The batcher the constructor builds.
newMessageBatcher ==
    [buffer |-> <<>>, batchSize |-> maxBatchSize, timer |-> FALSE]

\* An add that reaches the batcher twice (a listener registered twice).
addTwice(b, event) ==
    LET r1 == batcherAdd(b, event)
        r2 == batcherAdd(r1.b, event)
    IN  [b |-> r2.b, out |-> r1.out \o r2.out]

\* An add that drops the event when the timer of the batcher is not armed.
addOnlyWhileStarted(b, event) ==
    IF b.timer THEN batcherAdd(b, event) ELSE [b |-> b, out |-> <<>>]

\* add(event): batcher.add(event).
add(b, event) == batcherAdd(b, event)

\* The listener (e) => this.add(e), called once per listener registered:
\* the batcher and the batches out after calls calls of add(event).
RECURSIVE listener(_, _, _)
listener(b, event, calls) ==
    IF calls = 0 THEN [b |-> b, out |-> <<>>]
    ELSE LET r1 == add(b, event)
             r2 == listener(r1.b, event, calls - 1)
         IN  [b |-> r2.b, out |-> r1.out \o r2.out]

\* A publishIgnoringErrors that hands the batch over last item first.
publishIgnoringErrorsReversed(messages) ==
    [i \in 1..Len(messages) |-> messages[Len(messages) + 1 - i]]

\* publishIgnoringErrors(messages): what it hands to snsProducer.publishBatch.
publishIgnoringErrors(messages) == messages

\* A publishIgnoringErrors whose catch block throws the error again.
rethrowingErrors(state) ==
    IF state = "rejected" THEN "rejected"
    ELSE IF state = "pending" THEN "pending" ELSE "resolved"

\* publishIgnoringErrors after its await: how the operation settles for the
\* state of the promise of publishBatch (the catch block does nothing).
ignoringErrors(state) ==
    IF state = "pending" THEN "pending" ELSE "resolved"

\* A callback handed to the batcher without promiseCollector.wrap.
notWrapped(set, p) == set

\* promiseCollector.wrap(...): the operation joins the in-flight set.
wrap(set, p) == set \cup {p}

\* The callback of the batcher, promiseCollector.wrap(publishIgnoringErrors),
\* called with the batches out: each is one operation in the in-flight set
\* and one publishBatch invocation with its chunk sends issued.
RECURSIVE dispatch(_, _)
dispatch(st, out) ==
    IF out = <<>> THEN st
    ELSE LET p == Len(st.pubs) + 1
             new == issue(p, publishIgnoringErrors(Head(out)))
             pub == invocation(TRUE, Head(out), new)
             st1 == [pubs |-> Append(st.pubs, pub),
                     sends |-> st.sends \o new,
                     inflight |-> forget(wrap(st.inflight, p), p, pub.op)]
         IN  dispatch(st1, Tail(out))

\* The batcher and the dispatched work after result res of a batcher call.
dispatched(res) ==
    dispatch([pubs |-> pubs, sends |-> sends, inflight |-> inflight], res.out)

(* ------------------------------- actions ------------------------------- *)

\* The options of an instance: an SNSProducer with or without
\* verboseBeginning, with the default or a custom serializer, with or without
\* prepareEntry; an AutoSNSProducer with the defaults.
Options(class) ==
    {o \in [verboseBeginning : BOOLEAN, prepareEntry : BOOLEAN,
             serializer : {"default", "custom"}] :
        class = "AutoSNSProducer" =>
            /\ o.verboseBeginning
            /\ ~o.prepareEntry
            /\ o.serializer = "default"}

Init ==
    /\ instance \in {"SNSProducer", "AutoSNSProducer"}
    /\ options \in Options(instance)
    /\ hooks = {}
    /\ batcher = newMessageBatcher
    /\ inflight = {}
    /\ pubs = <<>>
    /\ sends = <<>>
    /\ waiters = <<>>
    /\ verboseLogCount = 0
    /\ notices = 0
    /\ added = <<>>
    /\ eventEmitter = IF instance = "AutoSNSProducer"
                      THEN subscription(newEventEmitter)
                      ELSE newEventEmitter
    /\ creation = [via |-> "new", awsSns |-> "SNSClient",
                   awsSnsFactory |-> "undefined",
                   client |-> constructor("SNSClient"), error |-> NoError]

\* eventEmitter.emit(name, e) by the application: the listeners registered
\* under name are called with e, and the constructor's listener is add(e).
Emit(name) ==
    /\ instance = "AutoSNSProducer"
    /\ IF name = eventName THEN Len(added) < MaxItems
       ELSE eventEmitter.emitted[name] < MaxOtherEmissions
    /\ LET e == freshItem(1)
           calls == eventEmitter.listeners[name]
           res == listener(batcher, e, calls)
           st == dispatched(res)
       IN  /\ eventEmitter' = emit(eventEmitter, name)
           /\ added' = IF calls > 0 THEN Append(added, e) ELSE added
           /\ batcher' = res.b
           /\ pubs' = st.pubs
           /\ sends' = st.sends
           /\ inflight' = st.inflight
    /\ UNCHANGED <<instance, options, hooks, waiters, verboseLogCount, notices,
                   creation>>

\* An emission under options.eventName: one add.
Add == Emit(eventName)

\* An onModuleInit() that logs and does not start the batcher.
OnModuleInitNoStart ==
    /\ instance = "AutoSNSProducer"
    /\ hooks = {}
    /\ hooks' = {"init"}
    /\ UNCHANGED <<instance, options, batcher, inflight, pubs, sends, waiters,
                   verboseLogCount, notices, added,
                   eventEmitter, creation>>

\* onModuleInit(): batcher.start(maxBatchIntervalMs).  The host calls it once,
\* before onModuleDestroy.
OnModuleInit ==
    /\ instance = "AutoSNSProducer"
    /\ hooks = {}
    /\ hooks' = {"init"}
    /\ batcher' = batcherStart(batcher)
    /\ UNCHANGED <<instance, options, inflight, pubs, sends, waiters, verboseLogCount,
                   notices, added,
                   eventEmitter, creation>>

\* The interval of batcher.start fires: batcher.flush().
TimerFire ==
    /\ batcher.timer
    /\ LET res == batcherFlush(batcher)
           st == dispatched(res)
       IN  /\ batcher' = res.b
           /\ pubs' = st.pubs
           /\ sends' = st.sends
           /\ inflight' = st.inflight
    /\ UNCHANGED <<instance, options, hooks, waiters, verboseLogCount, notices, added,
                   eventEmitter, creation>>

\* flush() up to its await: batcher.flush(), then promiseCollector.pending().
\* The waiter keeps what held at the call: the items added, the items
\* buffered, the send calls made.
flushing(b, kind) ==
    /\ instance = "AutoSNSProducer"
    /\ LET res == batcherFlush(b)
           st == dispatched(res)
       IN  /\ batcher' = res.b
           /\ pubs' = st.pubs
           /\ sends' = st.sends
           /\ inflight' = st.inflight
           /\ waiters' = Append(waiters,
                [kind |-> kind, snap |-> pending(st.inflight),
                 state |-> "waiting", adds |-> Len(added),
                 buffered |-> Len(b.buffer), sent |-> Len(sends)])
    /\ UNCHANGED <<instance, options, verboseLogCount, notices, added,
                   eventEmitter, creation>>

\* A flush() call, MaxFlushCalls of them and of onModuleDestroy() at most.
flushCall(b, kind) ==
    /\ Len(waiters) < MaxFlushCalls
    /\ flushing(b, kind)

\* flush(), called by the host or on the 'flush' event.
Flush ==
    /\ flushCall(batcher, "flush")
    /\ UNCHANGED hooks

\* An onModuleDestroy() that stops the timer and awaits pending() without
\* flushing the buffer.
OnModuleDestroyNoFlush ==
    /\ instance = "AutoSNSProducer"
    /\ "destroy" \notin hooks
    /\ Len(waiters) < MaxFlushCalls
    /\ hooks' = hooks \cup {"destroy"}
    /\ batcher' = batcherStop(batcher)
    /\ waiters' = Append(waiters,
            [kind |-> "destroy", snap |-> pending(inflight),
             state |-> "waiting", adds |-> Len(added),
             buffered |-> Len(batcher.buffer), sent |-> Len(sends)])
    /\ UNCHANGED <<instance, options, inflight, pubs, sends, verboseLogCount,
                   notices, added,
                   eventEmitter, creation>>

\* An onModuleDestroy() that flushes and awaits without batcher.stop().
OnModuleDestroyNoStop ==
    /\ "destroy" \notin hooks
    /\ hooks' = hooks \cup {"destroy"}
    /\ flushCall(batcher, "destroy")

\* onModuleDestroy(): batcher.stop(), then await this.flush().  The host
\* calls it once.
OnModuleDestroy ==
    /\ "destroy" \notin hooks
    /\ hooks' = hooks \cup {"destroy"}
    /\ flushCall(batcherStop(batcher), "destroy")

\* A flush() that does not await pending().
flushNotAwaiting(w) == TRUE

\* await this.promiseCollector.pending() in flush(): waiter w goes on once
\* the promise of pending() has settled.
flushAwait(w) == pendingSettled(waiters[w].snap)

\* An onModuleDestroy() that, once the drain is over, dispatches what was
\* added to the buffer in the meantime.
FlushReturnSweeping(w) ==
    /\ waiters[w].state = "waiting"
    /\ flushAwait(w)
    /\ waiters' = [waiters EXCEPT ![w].state =
            IF \E p \in waiters[w].snap : pubs[p].op = "rejected"
            THEN "rejected" ELSE "resolved",
            ![w].snap = {}]
    /\ LET res == IF waiters[w].kind = "destroy" THEN batcherFlush(batcher)
                  ELSE [b |-> batcher, out |-> <<>>]
           st == dispatched(res)
       IN  /\ batcher' = res.b
           /\ pubs' = st.pubs
           /\ sends' = st.sends
           /\ inflight' = st.inflight
    /\ UNCHANGED <<instance, options, hooks, verboseLogCount, notices, added,
                   eventEmitter, creation>>

\* flush() after its await: it returns, and rejects if pending() rejected.
\* A waiter that has returned keeps no snapshot.
FlushReturn(w) ==
    /\ waiters[w].state = "waiting"
    /\ flushAwait(w)
    /\ waiters' = [waiters EXCEPT ![w].state =
            IF \E p \in waiters[w].snap : pubs[p].op = "rejected"
            THEN "rejected" ELSE "resolved",
            ![w].snap = {}]
    /\ UNCHANGED <<instance, options, hooks, batcher, inflight, pubs, sends,
                   verboseLogCount, notices, added,
                   eventEmitter, creation>>

\* snsProducer.publishBatch(messages) called with one item, or with an array
\* of n fresh items.
publishBatchCall(isArray, n) ==
    /\ instance = "SNSProducer"
    /\ isArray \/ n = 1
    /\ LET items == [i \in 1..n |-> freshItem(i)]
           messages == IF isArray THEN [isArray |-> TRUE, items |-> items]
                       ELSE [isArray |-> FALSE, item |-> items[1]]
           new == issue(Len(pubs) + 1, toArray(messages))
       IN  /\ pubs' = Append(pubs, invocation(FALSE, items, new))
           /\ sends' = sends \o new
    /\ UNCHANGED <<instance, options, hooks, batcher, inflight, waiters,
                   verboseLogCount, notices, added,
                   eventEmitter, creation>>

\* A manual publishBatch call, MaxPublishCalls of them at most.
PublishBatch(isArray, n) ==
    /\ Cardinality(manualPubs) < MaxPublishCalls
    /\ publishBatchCall(isArray, n)

\* A doPublishBatch that calls countVerboseLogging() in a finally block,
\* after a rejected send as after a returned one.
SendSettleCountingRejections(s, r) ==
    /\ sends[s].state = "pending"
    /\ LET p == sends[s].pub
           snd == settled(sends[s], r, verboseLogCount)
           counted == countVerboseLogging(verboseLogCount)
           sends1 == [sends EXCEPT ![s] = snd]
           pub1 == promiseAll(pubs[p], snd,
                              SelectSeq(sends1, LAMBDA c : c.pub = p))
           pub2 == IF ~pub1.auto THEN pub1
                   ELSE [pub1 EXCEPT !.op = ignoringErrors(pub1.state)]
       IN  /\ sends' = sends1
           /\ verboseLogCount' = counted.count
           /\ notices' = notices + counted.notice
           /\ pubs' = [pubs EXCEPT ![p] = pub2]
           /\ inflight' = forget(inflight, p, pub2.op)
    /\ UNCHANGED <<instance, options, hooks, batcher, waiters, added,
                   eventEmitter, creation>>

\* A doPublishBatch that sends the chunk again when its send has rejected.
SendSettleRetrying(s, r) ==
    /\ sends[s].state = "pending"
    /\ LET p == sends[s].pub
           snd == settled(sends[s], r, verboseLogCount)
           counted == IF r.kind = "returned"
                      THEN countVerboseLogging(verboseLogCount)
                      ELSE [count |-> verboseLogCount, notice |-> 0]
           sends1 == [sends EXCEPT ![s] = snd]
           pub1 == promiseAll(pubs[p], snd,
                              SelectSeq(sends1, LAMBDA c : c.pub = p))
           pub2 == IF ~pub1.auto THEN pub1
                   ELSE [pub1 EXCEPT !.op = ignoringErrors(pub1.state)]
       IN  /\ sends' = IF r.kind = "rejected"
                       THEN Append(sends1, doPublishBatch(p, sends[s].messages))
                       ELSE sends1
           /\ verboseLogCount' = counted.count
           /\ notices' = notices + counted.notice
           /\ pubs' = [pubs EXCEPT ![p] = pub2]
           /\ inflight' = forget(inflight, p, pub2.op)
    /\ UNCHANGED <<instance, options, hooks, batcher, waiters, added,
                   eventEmitter, creation>>

\* The remote send s settles with outcome r: doPublishBatch logs and counts,
\* Promise.all and publishIgnoringErrors react, the collector forgets the
\* operation once it has settled.
SendSettle(s, r) ==
    /\ sends[s].state = "pending"
    /\ LET p == sends[s].pub
           snd == settled(sends[s], r, verboseLogCount)
           counted == IF r.kind = "returned"
                      THEN countVerboseLogging(verboseLogCount)
                      ELSE [count |-> verboseLogCount, notice |-> 0]
           sends1 == [sends EXCEPT ![s] = snd]
           pub1 == promiseAll(pubs[p], snd,
                              SelectSeq(sends1, LAMBDA c : c.pub = p))
           pub2 == IF ~pub1.auto THEN pub1
                   ELSE [pub1 EXCEPT !.op = ignoringErrors(pub1.state)]
       IN  /\ sends' = sends1
           /\ verboseLogCount' = counted.count
           /\ notices' = notices + counted.notice
           /\ pubs' = [pubs EXCEPT ![p] = pub2]
           /\ inflight' = forget(inflight, p, pub2.op)
    /\ UNCHANGED <<instance, options, hooks, batcher, waiters, added,
                   eventEmitter, creation>>

\* An AutoSNSProducer fed by its event emitter, its timer and its host, or an
\* SNSProducer called manually; the remote end settles the send calls.
Next ==
    \/ Add
    \/ OnModuleInit
    \/ TimerFire
    \/ Flush
    \/ OnModuleDestroy
    \/ \E w \in 1..Len(waiters) : FlushReturn(w)
    \/ \E isArray \in BOOLEAN, n \in 0..MaxMessages : PublishBatch(isArray, n)
    \/ \E s \in 1..Len(sends) : \E r \in Outcomes(s, Len(sends[s].entries)) :
            SendSettle(s, r)

Spec == Init /\ [][Next]_vars

(* --------- an AutoSNSProducer left to its timer and its host ---------- *)

InitTimer == Init /\ instance = "AutoSNSProducer"

\* No flush() from outside: items leave the buffer by size, by the timer or
\* at onModuleDestroy.
NextTimer ==
    \/ Add
    \/ OnModuleInit
    \/ TimerFire
    \/ OnModuleDestroy
    \/ \E w \in 1..Len(waiters) : FlushReturn(w)
    \/ \E s \in 1..Len(sends) : \E r \in Outcomes(s, Len(sends[s].entries)) :
            SendSettle(s, r)

\* The interval of a started batcher fires again and again.
SpecTimer == InitTimer /\ [][NextTimer]_vars /\ WF_vars(TimerFire)

(* ------ an AutoSNSProducer on an emitter used for other events too ----- *)

InitEmit == Init /\ instance = "AutoSNSProducer"

\* The application emits under the configured name and under another one.
NextEmit ==
    \/ \E name \in EventNames : Emit(name)
    \/ OnModuleInit
    \/ TimerFire
    \/ \E s \in 1..Len(sends) : \E r \in Outcomes(s, Len(sends[s].entries)) :
            SendSettle(s, r)

SpecEmit == InitEmit /\ [][NextEmit]_vars

(* ------------- a producer from its creation to its first use ---------- *)

\* No instance yet: the host has the default options and an event emitter.
InitCreate ==
    /\ instance = "none"
    /\ options \in Options("AutoSNSProducer")
    /\ hooks = {}
    /\ batcher = newMessageBatcher
    /\ inflight = {}
    /\ pubs = <<>>
    /\ sends = <<>>
    /\ waiters = <<>>
    /\ verboseLogCount = 0
    /\ notices = 0
    /\ added = <<>>
    /\ eventEmitter = newEventEmitter
    /\ creation = [via |-> "none", awsSns |-> "undefined",
                   awsSnsFactory |-> "undefined", client |-> "none",
                   error |-> NoError]

\* The instance r of class, or none, created via via from what was supplied.
created(via, r, awsSns, awsSnsFactory) ==
    /\ instance = "none"
    /\ creation.via = "none"
    /\ instance' = r.instance
    /\ creation' = [via |-> via, awsSns |-> awsSns,
                    awsSnsFactory |-> awsSnsFactory, client |-> r.client,
                    error |-> r.error]
    /\ eventEmitter' = IF r.instance = "AutoSNSProducer"
                       THEN subscription(eventEmitter) ELSE eventEmitter
    /\ UNCHANGED <<options, hooks, batcher, inflight, pubs, sends, waiters,
                   verboseLogCount, notices, added>>

\* The host resolves the provider of register(options): useFactory is called
\* with the SNS client and the SNS factory it has, each of them optional.
Register(class, awsSns, awsSnsFactory) ==
    created("register", useFactory(class, awsSns, awsSnsFactory),
            awsSns, awsSnsFactory)

\* new SNSProducer(instanceOrFactory, options) or new AutoSNSProducer(
\* instanceOrFactory, eventEmitter, options), called directly.
New(class, instanceOrFactory) ==
    created("new",
            [instance |-> class, client |-> constructor(instanceOrFactory),
             error |-> NoError],
            IF instanceOrFactory = "SNSClient" THEN "SNSClient" ELSE "undefined",
            IF instanceOrFactory = "factory" THEN "factory" ELSE "undefined")

NextCreate ==
    \/ \E class \in {"SNSProducer", "AutoSNSProducer"},
          awsSns \in {"undefined", "SNSClient"},
          awsSnsFactory \in {"undefined", "factory"} :
            Register(class, awsSns, awsSnsFactory)
    \/ \E class \in {"SNSProducer", "AutoSNSProducer"},
          instanceOrFactory \in {"undefined", "SNSClient", "factory"} :
            New(class, instanceOrFactory)
    \/ Add
    \/ OnModuleInit
    \/ TimerFire
    \/ \E n \in 1..MaxMessages : PublishBatch(TRUE, n)
    \/ \E s \in 1..Len(sends) : \E r \in Outcomes(s, Len(sends[s].entries)) :
            SendSettle(s, r)

SpecCreate == InitCreate /\ [][NextCreate]_vars

(* ------------- an AutoSNSProducer used after its shutdown -------------- *)

InitShutdown == Init /\ instance = "AutoSNSProducer"

\* flush(), called once more by the host after it has called onModuleDestroy.
FlushAfterDestroy ==
    /\ "destroy" \in hooks
    /\ Len(waiters) < MaxFlushCalls + 1
    /\ flushing(batcher, "flush")
    /\ UNCHANGED hooks

\* The host shuts the producer down while the application goes on emitting.
NextShutdown ==
    \/ Add
    \/ OnModuleInit
    \/ TimerFire
    \/ OnModuleDestroy
    \/ FlushAfterDestroy
    \/ \E w \in 1..Len(waiters) : FlushReturn(w)
    \/ \E s \in 1..Len(sends) : \E r \in Outcomes(s, Len(sends[s].entries)) :
            SendSettle(s, r)

SpecShutdown == InitShutdown /\ [][NextShutdown]_vars

(* ------- an AutoSNSProducer drained while the remote end answers ------- *)

InitDrain == Init /\ instance = "AutoSNSProducer"

\* The host calls flush() and onModuleDestroy() while items are added.
NextDrain ==
    \/ Add
    \/ Flush
    \/ OnModuleDestroy
    \/ FlushAfterDestroy
    \/ \E w \in 1..Len(waiters) : FlushReturn(w)
    \/ \E s \in 1..Len(sends) : \E r \in Outcomes(s, Len(sends[s].entries)) :
            SendSettle(s, r)

\* Every send call in flight settles, one way or another, and a flush()
\* whose await is over goes on.
SpecDrain ==
    /\ InitDrain
    /\ [][NextDrain]_vars
    /\ WF_vars(\E s \in 1..Len(sends) :
                  \E r \in Outcomes(s, Len(sends[s].entries)) : SendSettle(s, r))
    /\ WF_vars(\E w \in 1..Len(waiters) : FlushReturn(w))

(* ------------------- a long-lived SNSProducer ------------------------- *)

\* The send calls that have settled other than with every entry published.
faults ==
    {s \in 1..Len(sends) :
        sends[s].state = "rejected" \/ sends[s].Failed > 0}

\* The caller calls publishBatch with an array of two chunks, once the
\* sends of its previous call have settled.
PublishAgain ==
    /\ \A s \in 1..Len(sends) : sends[s].state # "pending"
    /\ Len(sends) + 2 <= MaxSends
    /\ publishBatchCall(TRUE, maxBatchSize + 1)

\* A send settles; MaxFaults of them at most other than with full success.
SettleAgain(s, r) ==
    /\ (r.kind = "rejected" \/ r.Failed > 0) => Cardinality(faults) < MaxFaults
    /\ SendSettle(s, r)

InitLongRun == Init /\ instance = "SNSProducer"

NextLongRun ==
    \/ PublishAgain
    \/ \E s \in 1..Len(sends) : \E r \in Outcomes(s, Len(sends[s].entries)) :
            SettleAgain(s, r)

SpecLongRun == InitLongRun /\ [][NextLongRun]_vars

\* ---------------------------------------------------------------------
\* Properties

\* Every item of every send call so far, in call order.
sentItems == Concat([s \in 1..Len(sends) |-> sends[s].messages])

ceilDiv(n, m) == (n + m - 1) \div m

\* C1: whatever the interleaving of add, size-triggered, timer-triggered and
\* explicit flush, every item passed to add is either in the buffer exactly
\* once or in exactly one dispatched batch, never both, never in two batches.
C1_NoItemLostOrDuplicated ==
    \A i \in Range(added) :
        Count(batcher.buffer, i) + Count(sentItems, i) = 1

\* Two batches dispatched (by the timer, by size or by flush()), an explicit
\* flush called, and a later item in the buffer.
C1_Witness ==
    /\ Len(added) = MaxItems
    /\ Len(batcher.buffer) > 0
    /\ Cardinality(autoPubs) >= 2
    /\ batcher.timer
    /\ Len(waiters) > 0

\* C2: publishBatch on n >= 0 items (one non-array item counts as 1) makes
\* exactly ceil(n / maxBatchSize) send calls, and the chunks concatenated in
\* call order are the original item sequence.
C2_ChunkCountAndOrder ==
    \A p \in manualPubs :
        LET cs == chunksOf(p)
        IN  /\ Len(cs) = ceilDiv(Len(pubs[p].messages), maxBatchSize)
            /\ Concat([k \in 1..Len(cs) |-> cs[k].messages])
                   = pubs[p].messages

\* An input that is not a whole number of chunks: full chunks, then a
\* shorter one (12 items by 10 in the test).
C2_Witness ==
    \E p \in manualPubs :
        LET cs == chunksOf(p)
        IN  /\ Len(cs) >= 2
            /\ Len(cs[1].messages) = maxBatchSize
            /\ Len(cs[Len(cs)].messages) < maxBatchSize

\* C3: every send call, from publishBatch or from a flush of the batcher,
\* carries at least 1 and at most maxBatchSize entries.
C3_EntriesPerSend ==
    \A s \in 1..Len(sends) :
        /\ Len(sends[s].entries) >= 1
        /\ Len(sends[s].entries) <= maxBatchSize

\* Send calls at both ends of the range.
C3_Witness ==
    /\ \E s \in 1..Len(sends) : Len(sends[s].entries) = maxBatchSize
    /\ \E s \in 1..Len(sends) : Len(sends[s].entries) = 1

\* C4: when the send of a chunk of a manual publishBatch rejects with E, the
\* rejection is logged at error severity and the promise of publishBatch
\* rejects with E itself (with the error of one of the rejected chunks when
\* several reject); it never resolves.
C4_ManualRejects ==
    \A p \in manualPubs :
        LET cs == chunksOf(p)
            rejected == {k \in 1..Len(cs) : cs[k].state = "rejected"}
        IN  rejected # {} =>
                /\ pubs[p].state = "rejected"
                /\ \E k \in rejected : pubs[p].error = cs[k].error
                /\ \A k \in rejected :
                       /\ cs[k].logged = "error"
                       /\ cs[k].error = cs[k].thrown

\* A publishBatch of several chunks, one rejected and one returned.
C4_Witness ==
    \E p \in manualPubs :
        LET cs == chunksOf(p)
        IN  /\ pubs[p].state = "rejected"
            /\ \E k \in 1..Len(cs) : cs[k].state = "rejected"
            /\ \E k \in 1..Len(cs) : cs[k].state = "returned"

\* C5: an error of a send dispatched from the batcher is swallowed: it is
\* logged at error severity, the dispatched operation does not reject, and
\* flush() and onModuleDestroy() do not reject.
C5_AutoSwallows ==
    /\ \A p \in autoPubs : pubs[p].op # "rejected"
    /\ \A w \in 1..Len(waiters) : waiters[w].state # "rejected"
    /\ \A s \in 1..Len(sends) :
           (pubs[sends[s].pub].auto /\ sends[s].state = "rejected")
               => sends[s].logged = "error"

\* A flush() or onModuleDestroy() that has resolved although the send it
\* dispatched rejected.
C5_Witness ==
    \E w \in 1..Len(waiters) :
        /\ waiters[w].state = "resolved"
        /\ waiters[w].buffered > 0
        /\ sends[waiters[w].sent + 1].state = "rejected"
        /\ pubs[sends[waiters[w].sent + 1].pub].op = "resolved"

\* C6, as stated: the promise of publishBatch settles, resolved or rejected,
\* only once all of its chunk send calls have settled.
C6_SettlesAfterAllSends ==
    \A p \in manualPubs :
        pubs[p].state # "pending" =>
            \A k \in 1..Len(chunksOf(p)) : chunksOf(p)[k].state # "pending"

\* C6: the promise of publishBatch resolves only once every chunk send call
\* has returned, and rejects only once a chunk send call has rejected, with
\* the error of that chunk; other chunks may then still be in flight.
C6_ResolvesAfterAllSends ==
    \A p \in manualPubs :
        LET cs == chunksOf(p)
        IN  /\ pubs[p].state = "resolved" =>
                \A k \in 1..Len(cs) : cs[k].state = "returned"
            /\ pubs[p].state = "rejected" =>
                \E k \in 1..Len(cs) :
                    /\ cs[k].state = "rejected"
                    /\ cs[k].error = pubs[p].error

\* A publishBatch of several chunks that has resolved.
C6_Witness ==
    \E p \in manualPubs :
        /\ pubs[p].state = "resolved"
        /\ Len(chunksOf(p)) >= 2

\* C7: once onModuleDestroy() has resolved with no add since it was called,
\* every item added is in a send call that has settled, the buffer and the
\* in-flight set are empty, and a buffer that held items at the call has
\* cost exactly one more send call.
C7_DestroyLosesNothing ==
    \A w \in 1..Len(waiters) :
        ( /\ waiters[w].kind = "destroy"
          /\ waiters[w].state = "resolved"
          /\ waiters[w].adds = Len(added) )
        => /\ batcher.buffer = <<>>
           /\ inflight = {}
           /\ ~batcher.timer
           /\ \A i \in Range(added) :
                  \E s \in 1..Len(sends) :
                      /\ i \in Range(sends[s].messages)
                      /\ sends[s].state # "pending"
           /\ Len(sends) = waiters[w].sent
                  + (IF waiters[w].buffered > 0 THEN 1 ELSE 0)

\* onModuleDestroy() resolved, called with fewer than batchSize items in
\* the buffer and after earlier send calls.
C7_Witness ==
    \E w \in 1..Len(waiters) :
        /\ waiters[w].kind = "destroy"
        /\ waiters[w].state = "resolved"
        /\ waiters[w].adds = Len(added)
        /\ waiters[w].buffered > 0
        /\ waiters[w].buffered < maxBatchSize
        /\ waiters[w].sent > 0

\* C8: an add that brings the buffer to batchSize flushes inside that add:
\* the batch dispatched holds exactly batchSize items, the buffer is empty
\* afterwards; any other add only appends, and after every add the buffer
\* holds fewer than batchSize items.
C8_SizeTriggeredFlush ==
    [][ added' # added =>
          LET e == added'[Len(added')]
              grown == Append(batcher.buffer, e)
          IN  /\ Len(batcher'.buffer) < maxBatchSize
              /\ IF Len(grown) >= maxBatchSize
                 THEN /\ batcher'.buffer = <<>>
                      /\ Len(pubs') = Len(pubs) + 1
                      /\ pubs'[Len(pubs')].messages = grown
                      /\ Len(grown) = maxBatchSize
                      /\ Len(sends') = Len(sends) + 1
                      /\ sends'[Len(sends')].messages = grown
                 ELSE /\ batcher'.buffer = grown
                      /\ pubs' = pubs
                      /\ sends' = sends ]_vars

\* A batch of exactly batchSize items has been dispatched.
C8_Witness ==
    \E p \in autoPubs :
        /\ Len(pubs[p].messages) = maxBatchSize
        /\ Len(added) > maxBatchSize

\* C9: the await of pending() in flush() goes on only when every operation
\* that was in the in-flight set when flush() called it has settled, in
\* whatever order they settle.
C9_DrainWaitsForSnapshot ==
    [][ /\ Len(waiters') > Len(waiters) =>
            waiters'[Len(waiters')].snap = inflight'
        /\ \A w \in 1..Len(waiters) :
            (waiters[w].state = "waiting" /\ waiters'[w].state # "waiting")
                => \A p \in waiters[w].snap : pubs[p].op # "pending" ]_vars

\* A flush() still waiting: of two operations in its snapshot the later one
\* has settled and the earlier one has not.
C9_Witness ==
    \E w \in 1..Len(waiters) :
        /\ waiters[w].state = "waiting"
        /\ \E p, q \in waiters[w].snap :
               /\ p < q
               /\ pubs[p].op = "pending"
               /\ pubs[q].op # "pending"

\* C10: the in-flight set is exactly the set of operations dispatched by the
\* batcher whose send has not settled, whatever the outcome of the sends
\* that have; it is empty once every dispatched send has settled.
C10_InflightExact ==
    /\ inflight = {p \in autoPubs :
                      \E k \in 1..Len(chunksOf(p)) :
                          chunksOf(p)[k].state = "pending"}
    /\ inflight = {p \in autoPubs : pubs[p].op = "pending"}
    /\ (\A s \in 1..Len(sends) : sends[s].state # "pending") => inflight = {}

\* The in-flight set empty again after a send that succeeded, one that
\* failed in part and one that rejected.
C10_Witness ==
    /\ inflight = {}
    /\ \E s \in 1..Len(sends) :
           sends[s].state = "returned" /\ sends[s].Failed = 0
    /\ \E s \in 1..Len(sends) :
           sends[s].state = "returned" /\ sends[s].Failed > 0
    /\ \E s \in 1..Len(sends) : sends[s].state = "rejected"
    /\ autoPubs # {}

\* The send calls that have returned, with or without failed entries.
returnedSends == {s \in 1..Len(sends) : sends[s].state = "returned"}

\* The send calls that have returned with no failed entry.
zeroFailure == {s \in returnedSends : sends[s].Failed = 0}

\* The send calls whose outcome was logged at level.
loggedAt(level) == {s \in 1..Len(sends) : sends[s].logged = level}

\* The send calls that settle in the step.
settling == {s \in 1..Len(sends) :
                sends[s].state = "pending" /\ sends'[s].state # "pending"}

Min(a, b) == IF a <= b THEN a ELSE b

\* C11, as stated: with verboseBeginning, 'log' is the level of exactly the
\* first 10 zero-failure publishes, whatever else settles among them, and
\* the notice is logged once, at the 10th zero-failure publish.
C11_FirstTenZeroFailure ==
    options.verboseBeginning =>
        /\ Cardinality(loggedAt("log"))
               = Min(MAX_VERBOSE_LOG_COUNT, Cardinality(zeroFailure))
        /\ notices = (IF Cardinality(zeroFailure) >= MAX_VERBOSE_LOG_COUNT
                      THEN 1 ELSE 0)

\* C11: with verboseBeginning, a zero-failure publish is logged at 'log'
\* when fewer than 10 send calls of the instance have returned before it,
\* with or without failed entries, and at 'debug' otherwise; the notice is
\* logged once, when the 10th send call returns; a rejected send counts for
\* nothing.
C11_FirstTenReturned ==
    [][ options.verboseBeginning =>
          \A s \in settling :
              LET k == Cardinality(returnedSends)
                  returns == sends'[s].state = "returned"
              IN  /\ (returns /\ sends'[s].Failed = 0) =>
                         sends'[s].logged =
                             (IF k < MAX_VERBOSE_LOG_COUNT
                              THEN "log" ELSE "debug")
                  /\ notices' = notices +
                         (IF returns /\ k = MAX_VERBOSE_LOG_COUNT - 1
                          THEN 1 ELSE 0) ]_vars

\* A zero-failure publish logged at 'debug' after the notice, a partial
\* failure and a rejection having settled too.
C11_Witness ==
    /\ options.verboseBeginning
    /\ notices = 1
    /\ \E s \in zeroFailure : sends[s].logged = "debug"
    /\ \E s \in returnedSends : sends[s].Failed > 0
    /\ \E s \in 1..Len(sends) : sends[s].state = "rejected"

\* C12: the verbose counter stays within 0..10 and never decreases, at most
\* 10 outcomes are ever logged at 'log', and a settlement logged at 'log'
\* finds the counter below 10 and increments it in the same step, so that of
\* two chunks in flight with one slot left only one is logged at 'log'.
C12_CounterRaceSafe ==
    [][ /\ verboseLogCount >= 0
        /\ verboseLogCount' <= MAX_VERBOSE_LOG_COUNT
        /\ verboseLogCount' >= verboseLogCount
        /\ Cardinality({s \in 1..Len(sends') : sends'[s].logged = "log"})
               <= MAX_VERBOSE_LOG_COUNT
        /\ \A s \in settling :
               sends'[s].logged = "log" =>
                   /\ verboseLogCount < MAX_VERBOSE_LOG_COUNT
                   /\ verboseLogCount' = verboseLogCount + 1 ]_vars

\* Two zero-failure chunks of one publishBatch, in flight together with one
\* slot left: one was logged at 'log', the other at 'debug'.
C12_Witness ==
    /\ verboseLogCount = MAX_VERBOSE_LOG_COUNT
    /\ \E s, t \in zeroFailure :
           /\ sends[s].pub = sends[t].pub
           /\ sends[s].logged = "log"
           /\ sends[t].logged = "debug"

\* C13: a send call that returns with failed entries, whatever the number
\* of successful ones, is logged at 'warn', be the verbose allowance
\* available, exhausted or disabled.
C13_FailuresWarn ==
    \A s \in returnedSends : sends[s].Failed > 0 => sends[s].logged = "warn"

\* A chunk none of whose entries succeeded, logged at 'warn' in a call made
\* after 10 send calls had returned.
C13_Witness ==
    \E s \in returnedSends :
        /\ options.verboseBeginning
        /\ sends[s].Failed > 0
        /\ sends[s].Successful = 0
        /\ sends[s].logged = "warn"
        /\ Cardinality({t \in returnedSends : sends[t].pub < sends[s].pub})
               >= MAX_VERBOSE_LOG_COUNT

\* C14: a send call that returns with failed entries is not an error: it is
\* not logged at 'error', doPublishBatch does not throw, publishBatch
\* resolves when all its chunks have returned, and the operation dispatched
\* by the batcher resolves too.
C14_PartialFailureNotFatal ==
    /\ \A s \in returnedSends :
           /\ sends[s].logged # "error"
           /\ sends[s].promise = "fulfilled"
           /\ sends[s].thrown = NoError
    /\ \A p \in 1..Len(pubs) :
           (\A k \in 1..Len(chunksOf(p)) : chunksOf(p)[k].state = "returned")
               => /\ pubs[p].state = "resolved"
                  /\ pubs[p].error = NoError
                  /\ pubs[p].auto => pubs[p].op = "resolved"

\* A manual publishBatch that has resolved, a chunk of it having returned
\* with a failed entry.
C14_Witness ==
    \E p \in manualPubs :
        /\ pubs[p].state = "resolved"
        /\ \E k \in 1..Len(chunksOf(p)) : chunksOf(p)[k].Failed > 0

\* C15: with the default entry construction the Id of an entry is the
\* decimal string of the zero-based index of the item in its own chunk:
\* every chunk has the ids "0", "1", ..., and so has the next chunk.
C15_ChunkLocalIds ==
    ~options.prepareEntry =>
        \A s \in 1..Len(sends) :
            /\ Len(sends[s].entries) = Len(sends[s].messages)
            /\ \A i \in 1..Len(sends[s].entries) :
                   sends[s].entries[i].Id = ToString(i - 1)

\* Two chunks of one input, both starting at "0".
C15_Witness ==
    /\ ~options.prepareEntry
    /\ \E s, t \in 1..Len(sends) :
           /\ s < t
           /\ sends[s].pub = sends[t].pub
           /\ Len(sends[s].entries) >= 2
           /\ sends[s].entries[1].Id = "0"
           /\ sends[t].entries[1].Id = "0"

\* C16: with prepareEntry configured every wire entry is
\* prepareEntry(item, index within the chunk) and no serializer is used;
\* without it every entry is {Id: index as string, Message: serializer(item)}
\* with the configured serializer, JSON.stringify by default.
C16_PrepareEntryOverrides ==
    \A s \in 1..Len(sends) :
        /\ Len(sends[s].entries) = Len(sends[s].messages)
        /\ \A i \in 1..Len(sends[s].entries) :
               LET item == sends[s].messages[i]
                   entry == sends[s].entries[i]
               IN  IF options.prepareEntry
                   THEN /\ entry = prepareEntry(item, i - 1)
                        /\ entry.Message
                               \notin {serializer(item), customSerializer(item)}
                   ELSE /\ entry.Id = ToString(i - 1)
                        /\ entry.Message =
                               (IF options.serializer = "custom"
                                THEN customSerializer(item)
                                ELSE serializer(item))

\* prepareEntry and a custom serializer both configured, an input sent in
\* two chunks.
C16_Witness ==
    /\ options.prepareEntry
    /\ options.serializer = "custom"
    /\ \E s, t \in 1..Len(sends) :
           /\ s < t
           /\ sends[s].pub = sends[t].pub
           /\ Len(sends[s].entries) >= 2

\* C17: flush() on an empty buffer makes no send call, starts no operation,
\* registers nothing in the in-flight set and leaves the buffer empty; any
\* flush() leaves the buffer empty, so that flush() after a flush does
\* nothing until an item is added.
C17_FlushEmptyIsNoOp ==
    [][ Len(waiters') > Len(waiters) =>
          /\ batcher'.buffer = <<>>
          /\ batcher.buffer = <<>> =>
                 /\ sends' = sends
                 /\ pubs' = pubs
                 /\ inflight' = inflight ]_vars

\* flush() was called on a buffer emptied by an earlier flush, and no send
\* call has been made since.
C17_Witness ==
    \E w \in 1..Len(waiters) :
        /\ waiters[w].kind = "flush"
        /\ waiters[w].buffered = 0
        /\ waiters[w].sent > 0
        /\ waiters[w].adds = Len(added)
        /\ Len(sends) = waiters[w].sent
        /\ batcher.buffer = <<>>

\* C18: publishBatch called with a zero-length array makes no send call,
\* logs nothing, leaves the verbose counter alone and resolves.
C18_EmptyInput ==
    [][ \A p \in 1..Len(pubs') :
          (p > Len(pubs) /\ ~pubs'[p].auto /\ pubs'[p].messages = <<>>)
              => /\ sends' = sends
                 /\ verboseLogCount' = verboseLogCount
                 /\ notices' = notices
                 /\ pubs'[p].state = "resolved"
                 /\ pubs'[p].error = NoError ]_vars

\* publishBatch([]) has resolved and no send call exists.
C18_Witness ==
    \E p \in manualPubs :
        /\ pubs[p].messages = <<>>
        /\ pubs[p].state = "resolved"
        /\ chunksOf(p) = <<>>
        /\ verboseLogCount = 0

\* C19: no retry, no re-queue: whatever the outcomes of the send calls so
\* far, every chunk of a publishBatch and every batch dispatched by the
\* batcher has exactly one send call, and no item is in two send calls or in
\* a send call and in the buffer.
C19_NoRetry ==
    LET held == sentItems \o batcher.buffer
    IN  /\ \A i, j \in 1..Len(held) : i < j => held[i] # held[j]
        /\ \A p \in 1..Len(pubs) :
               Cardinality({s \in 1..Len(sends) : sends[s].pub = p})
                   = ceilDiv(Len(pubs[p].messages), maxBatchSize)

\* Every batch dispatched by the batcher has settled, one of them rejected
\* and one with a failed entry, and nothing is left in the buffer.
C19_Witness ==
    /\ autoPubs # {}
    /\ Len(added) = MaxItems
    /\ batcher.buffer = <<>>
    /\ \A s \in 1..Len(sends) : sends[s].state # "pending"
    /\ \E s \in 1..Len(sends) : sends[s].state = "rejected"
    /\ \E s \in returnedSends : sends[s].Failed > 0
    /\ Len(sends) = Len(pubs)

\* A step in which the timer of the batcher flushes the buffer.
timerFlushes ==
    /\ Len(pubs') > Len(pubs)
    /\ pubs'[Len(pubs')].auto
    /\ added' = added
    /\ waiters' = waiters

\* C20: batcher.stop() only disarms the timer.  In the step of
\* onModuleDestroy no send call in flight is touched and the in-flight set
\* loses nothing, stop() leaves the buffer as it is (the flush that follows
\* dispatches exactly that buffer, and nothing when it is empty), and
\* stopping twice, or an instance never started, is stopping once.  After it
\* the timer is off and never flushes again.
C20_StopOnlyDisarms ==
    [][ /\ ("destroy" \in hooks' /\ "destroy" \notin hooks) =>
              /\ ~batcher'.timer
              /\ \A s \in 1..Len(sends) : sends'[s] = sends[s]
              /\ inflight \subseteq inflight'
              /\ batcherStop(batcher).buffer = batcher.buffer
              /\ batcherStop(batcherStop(batcher)) = batcherStop(batcher)
              /\ ~batcher.timer => batcherStop(batcher) = batcher
              /\ IF batcher.buffer = <<>>
                 THEN pubs' = pubs /\ sends' = sends /\ inflight' = inflight
                 ELSE /\ Len(pubs') = Len(pubs) + 1
                      /\ pubs'[Len(pubs')].messages = batcher.buffer
        /\ "destroy" \in hooks =>
              /\ ~batcher.timer
              /\ ~batcher'.timer
              /\ ~timerFlushes ]_vars

\* After onModuleDestroy of a started instance: a send call made before it
\* is still in flight, and an item added after it stays in the buffer.
C20_Witness ==
    \E w \in 1..Len(waiters) :
        /\ waiters[w].kind = "destroy"
        /\ hooks = {"init", "destroy"}
        /\ waiters[w].sent > 0
        /\ sends[1].state = "pending"
        /\ Len(added) > waiters[w].adds
        /\ batcher.buffer # <<>>

\* C21: between onModuleInit and onModuleDestroy a firing of the timer is
\* one flush, dispatching the buffer as one batch, and, the timer firing
\* again and again, every item in the buffer is eventually in a send call,
\* the buffer never reaching batchSize or not.
C21_TimerFlushes ==
    /\ [][ timerFlushes =>
             /\ batcher.timer
             /\ Len(pubs') = Len(pubs) + 1
             /\ pubs'[Len(pubs')].messages = batcher.buffer
             /\ batcher'.buffer = <<>> ]_vars
    /\ \A i \in 1..MaxItems :
           ( /\ "init" \in hooks
             /\ "destroy" \notin hooks
             /\ i \in Range(batcher.buffer) )
               ~> (i \in Range(sentItems))

\* The timer has dispatched a batch of fewer than batchSize items: no
\* flush() and no onModuleDestroy() has been called.
C21_Witness ==
    /\ batcher.timer
    /\ waiters = <<>>
    /\ \E p \in autoPubs :
           /\ Len(pubs[p].messages) < maxBatchSize
           /\ Len(chunksOf(p)) = 1

\* The step dispatches items as one batch in one send call, all of them and
\* only them, and leaves the buffer empty.
dispatchedInOneSend(items) ==
    /\ Len(pubs') = Len(pubs) + 1
    /\ pubs'[Len(pubs')].messages = items
    /\ Len(sends') = Len(sends) + 1
    /\ sends'[Len(sends')].pub = Len(pubs')
    /\ sends'[Len(sends')].messages = items
    /\ Len(sends'[Len(sends')].entries) = Len(items)
    /\ \A i \in 1..Len(items) :
           sends'[Len(sends')].entries[i].Message = optionsSerializer(items[i])
    /\ batcher'.buffer = <<>>

\* C22: a flush of a buffer of k > 0 items, be it explicit, by the timer or
\* by size, makes exactly one send call, whose entries are those k items.
C22_OneSendPerFlush ==
    [][ /\ (Len(waiters') > Len(waiters) /\ batcher.buffer # <<>>) =>
              dispatchedInOneSend(batcher.buffer)
        /\ timerFlushes =>
              batcher.buffer # <<>> /\ dispatchedInOneSend(batcher.buffer)
        /\ (added' # added /\ Len(pubs') > Len(pubs)) =>
              dispatchedInOneSend(
                  Append(batcher.buffer, added'[Len(added')])) ]_vars

\* flush() called with fewer than batchSize items in the buffer: the next
\* send call has as many entries.
C22_Witness ==
    \E w \in 1..Len(waiters) :
        /\ waiters[w].kind = "flush"
        /\ waiters[w].buffered > 0
        /\ waiters[w].buffered < maxBatchSize
        /\ Len(sends) > waiters[w].sent
        /\ Len(sends[waiters[w].sent + 1].entries) = waiters[w].buffered

\* C23, as stated: flush() never waits for the network: once it has
\* dispatched, its returned promise can complete, the dispatched send call
\* settled or not.
C23_FlushNeverWaits ==
    \A w \in 1..Len(waiters) :
        waiters[w].state = "waiting" => ENABLED FlushReturn(w)

\* C23: the flush of the batcher (by the timer, by size inside add, or as
\* the first statement of flush()) swaps the buffer and dispatches the batch
\* as an operation registered in the in-flight set, its send call still in
\* flight when the step ends; the promise returned by flush() is then
\* pending on that operation and completes only after its send call has
\* settled.
C23_FlushDispatchesThenDrains ==
    [][ /\ (Len(pubs') > Len(pubs) /\ pubs'[Len(pubs')].auto) =>
              /\ batcher'.buffer = <<>>
              /\ sends'[Len(sends')].pub = Len(pubs')
              /\ sends'[Len(sends')].state = "pending"
              /\ pubs'[Len(pubs')].op = "pending"
              /\ Len(pubs') \in inflight'
        /\ (Len(waiters') > Len(waiters) /\ batcher.buffer # <<>>) =>
              /\ waiters'[Len(waiters')].state = "waiting"
              /\ Len(pubs') \in waiters'[Len(waiters')].snap
        /\ \A w \in 1..Len(waiters) :
              ( /\ waiters[w].state = "waiting"
                /\ waiters'[w].state # "waiting"
                /\ waiters[w].buffered > 0 )
                  => sends[waiters[w].sent + 1].state # "pending" ]_vars

\* flush() has dispatched its batch and has not returned: the send call is
\* still in flight.
C23_Witness ==
    \E w \in 1..Len(waiters) :
        /\ waiters[w].kind = "flush"
        /\ waiters[w].state = "waiting"
        /\ waiters[w].buffered > 0
        /\ sends[waiters[w].sent + 1].state = "pending"
        /\ sends[waiters[w].sent + 1].pub \in inflight

\* C24: with verboseBeginning false, whatever the outcomes, no publish is
\* logged at 'log', every zero-failure publish is logged at 'debug', the
\* verbose counter stays at 0 and the notice is never logged.
C24_VerboseDisabled ==
    ~options.verboseBeginning =>
        /\ loggedAt("log") = {}
        /\ \A s \in zeroFailure : sends[s].logged = "debug"
        /\ verboseLogCount = 0
        /\ notices = 0

\* verboseBeginning false, 10 zero-failure publishes and a rejected one.
C24_Witness ==
    /\ ~options.verboseBeginning
    /\ Cardinality(zeroFailure) >= MAX_VERBOSE_LOG_COUNT
    /\ \E s \in 1..Len(sends) : sends[s].state = "rejected"

\* C25: publishBatch issues all its ceil(n / maxBatchSize) send calls in the
\* step of the call, before it waits for any of them: they are all in
\* flight together, none waiting for the one before it to settle.
C25_ChunksIssuedTogether ==
    [][ \A p \in 1..Len(pubs') :
          (p > Len(pubs) /\ ~pubs'[p].auto) =>
              LET n == ceilDiv(Len(pubs'[p].messages), maxBatchSize)
              IN  /\ Len(sends') = Len(sends) + n
                  /\ \A s \in 1..Len(sends') :
                         s > Len(sends) =>
                             /\ sends'[s].pub = p
                             /\ sends'[s].state = "pending" ]_vars

\* Several chunks of one publishBatch in flight, the last one settled
\* before the first.
C25_Witness ==
    \E p \in manualPubs :
        /\ Len(chunksOf(p)) >= 2
        /\ chunksOf(p)[1].state = "pending"
        /\ chunksOf(p)[Len(chunksOf(p))].state # "pending"

\* C26: the constructor registers one listener, under options.eventName and
\* under no other name; every emission under that name is exactly one add of
\* the emitted value, one more item in the buffer or in the batch the add
\* dispatched; an emission under another name adds nothing.
C26_OneAddPerEmission ==
    [][ /\ \A n \in EventNames :
              eventEmitter.listeners[n] = IF n = eventName THEN 1 ELSE 0
        /\ \A n \in EventNames :
              eventEmitter'.emitted[n] > eventEmitter.emitted[n] =>
                  IF n = eventName
                  THEN /\ added' = Append(added, freshItem(1))
                       /\ sentItems' \o batcher'.buffer
                            = sentItems \o batcher.buffer \o <<freshItem(1)>>
                  ELSE /\ added' = added
                       /\ batcher' = batcher
                       /\ pubs' = pubs
                       /\ sends' = sends
                       /\ inflight' = inflight ]_vars

\* Emissions under both names, with an item of the configured name in the
\* buffer and another in a batch dispatched.
C26_Witness ==
    /\ eventEmitter.emitted["otherEvent"] >= 1
    /\ eventEmitter.emitted[eventName] = Len(added)
    /\ Len(added) > maxBatchSize
    /\ batcher.buffer # <<>>
    /\ sentItems # <<>>

\* Neither an SNS client nor an SNS factory was supplied at creation.
neitherSupplied ==
    /\ creation.via # "none"
    /\ creation.awsSns = "undefined"
    /\ creation.awsSnsFactory = "undefined"

\* C27 as stated: when neither an SNS client nor an SNS factory is supplied,
\* creating the producer fails with an error and no instance exists.
C27_MissingClientFailsCreation ==
    neitherSupplied => (instance = "none" /\ creation.error # NoError)

\* C27: the provider of register fails at once with its error when it is
\* given neither an SNS client nor an SNS factory, and then no instance
\* exists, nothing is subscribed and nothing is ever published; given one of
\* them it constructs the producer with a client.  The constructor called
\* directly checks nothing: with no client the instance exists, and the
\* failure is the TypeError of its send calls.
C27_RegisterFailsAtCreation ==
    /\ (creation.via = "register" /\ neitherSupplied) =>
           /\ instance = "none"
           /\ creation.error = mustBeProvided("SNSProducer")
                \/ creation.error = mustBeProvided("AutoSNSProducer")
           /\ eventEmitter = newEventEmitter
           /\ pubs = <<>> /\ sends = <<>> /\ batcher.buffer = <<>>
    /\ (creation.via = "register" /\ ~neitherSupplied) =>
           /\ instance # "none"
           /\ creation.error = NoError
           /\ creation.client = "SNSClient"
    /\ creation.via = "new" =>
           /\ instance # "none"
           /\ creation.error = NoError
           /\ neitherSupplied =>
                  /\ creation.client = "undefined"
                  /\ \A s \in 1..Len(sends) :
                         sends[s].state # "pending" =>
                             /\ sends[s].state = "rejected"
                             /\ sends[s].error = "TypeError"

\* register's provider has failed for want of a client.
C27_Witness ==
    /\ creation.via = "register"
    /\ neitherSupplied
    /\ instance = "none"
    /\ creation.error # NoError

\* C28: the batches dispatched so far, in dispatch order, followed by the
\* buffer are the items added, in the order they were added: each batch is
\* exactly the items added since the swap before it, and an item added after
\* a swap is in a later batch or still in the buffer.
C28_BatchesFollowInsertionOrder ==
    instance = "AutoSNSProducer" =>
        /\ sentItems \o batcher.buffer = added
        /\ \A p \in autoPubs :
               Concat([k \in 1..Len(chunksOf(p)) |-> chunksOf(p)[k].messages])
                   = pubs[p].messages

\* An explicit flush has swapped out a batch, an item was added after it,
\* a later flush has dispatched a second batch and an item is in the buffer.
C28_Witness ==
    /\ Cardinality(autoPubs) >= 2
    /\ batcher.buffer # <<>>
    /\ \E w \in 1..Len(waiters) :
           /\ waiters[w].kind = "flush"
           /\ waiters[w].buffered > 0
           /\ waiters[w].adds < Len(added)

\* C29: the promise of a publishBatch invocation rejects in the step in
\* which the first of its chunk sends rejects, with the error of that
\* send, and a chunk that rejects later never changes that error: the
\* error is that of the first rejection in time, whatever the chunk's index.
C29_FirstRejectionInTimeWins ==
    [][ \A s \in 1..Len(sends) :
          LET p == sends[s].pub
          IN  ( ~pubs[p].auto /\ sends[s].state = "pending"
                /\ sends'[s].state = "rejected" ) =>
                  IF \E c \in 1..Len(sends) :
                         sends[c].pub = p /\ sends[c].state = "rejected"
                  THEN /\ pubs[p].state = "rejected"
                       /\ pubs'[p] = pubs[p]
                       /\ pubs'[p].error # sends'[s].error
                  ELSE /\ pubs[p].state = "pending"
                       /\ pubs'[p].state = "rejected"
                       /\ pubs'[p].error = sends'[s].error ]_vars

\* Both chunks of a publishBatch have rejected and its promise carries the
\* error of the second chunk, which rejected first.
C29_Witness ==
    \E p \in manualPubs :
        /\ Len(chunksOf(p)) >= 2
        /\ chunksOf(p)[1].state = "rejected"
        /\ chunksOf(p)[2].state = "rejected"
        /\ pubs[p].state = "rejected"
        /\ pubs[p].error = chunksOf(p)[2].error
        /\ pubs[p].error # chunksOf(p)[1].error

\* C30: whatever has become of the promise of publishBatch, each of its
\* chunks is issued exactly once, a chunk whose send has rejected has made
\* exactly one logger.error call with the exception and the chunk's item
\* count, a chunk whose send has returned has made exactly one outcome log,
\* and a chunk still in flight can settle either way.
C30_ChunksIndependent ==
    \A p \in manualPubs :
        LET cs == chunksOf(p)
        IN  /\ Len(cs) = ceilDiv(Len(pubs[p].messages), maxBatchSize)
            /\ Concat([k \in 1..Len(cs) |-> cs[k].messages]) = pubs[p].messages
            /\ \A k \in 1..Len(cs) :
                   /\ cs[k].state = "pending" => cs[k].logs = <<>>
                   /\ cs[k].state = "rejected" =>
                          cs[k].logs = <<[level |-> "error",
                                          error |-> cs[k].error,
                                          messageCount |-> Len(cs[k].messages)]>>
                   /\ cs[k].state = "returned" =>
                          /\ Len(cs[k].logs) = 1
                          /\ cs[k].logs[1].level \in {"warn", "log", "debug"}
                          /\ cs[k].logs[1].messageCount = Len(cs[k].messages)
            /\ \A s \in 1..Len(sends) :
                   (sends[s].pub = p /\ sends[s].state = "pending") =>
                       \A r \in Outcomes(s, Len(sends[s].entries)) :
                           ENABLED SendSettle(s, r)

\* The promise has rejected with the error of one chunk; another chunk has
\* rejected after it and made its own error log, and the others have
\* settled too.
C30_Witness ==
    \E p \in manualPubs :
        /\ pubs[p].state = "rejected"
        /\ \A k \in 1..Len(chunksOf(p)) : chunksOf(p)[k].state # "pending"
        /\ \E k \in 1..Len(chunksOf(p)) :
               /\ chunksOf(p)[k].state = "rejected"
               /\ chunksOf(p)[k].error # pubs[p].error
               /\ Len(chunksOf(p)[k].logs) = 1

\* C31: while verboseBeginning is true and the counter is below 10, a send
\* call that returns increments the counter by exactly 1, with failed
\* entries (logged at 'warn') as without; a send call that rejects leaves
\* the counter unchanged.
C31_ReturnedSendsCount ==
    [][ \A s \in settling :
          /\ ( verboseLoggingEnabled(verboseLogCount)
               /\ sends'[s].state = "returned" ) =>
                 /\ verboseLogCount' = verboseLogCount + 1
                 /\ sends'[s].Failed > 0 => sends'[s].logged = "warn"
          /\ sends'[s].state = "rejected" =>
                 /\ verboseLogCount' = verboseLogCount
                 /\ notices' = notices ]_vars

\* The allowance still open after a partial failure logged at 'warn', a
\* zero-failure return and a rejection: the counter is at 2.
C31_Witness ==
    /\ options.verboseBeginning
    /\ verboseLogCount = 2
    /\ Cardinality(returnedSends) = 2
    /\ \E s \in returnedSends : sends[s].Failed > 0 /\ sends[s].logged = "warn"
    /\ \E s \in zeroFailure : sends[s].logged = "log"
    /\ \E s \in 1..Len(sends) : sends[s].state = "rejected"

\* C32: after onModuleDestroy, while it waits and after it has resolved,
\* only the timer is off: add is still possible and appends the item to the
\* buffer, an add that brings the buffer to batchSize dispatches it in one
\* send call, and flush() is still possible and dispatches the buffer.
C32_StoppedStillAddsAndFlushes ==
    [][ "destroy" \in hooks =>
          /\ ~batcher.timer
          /\ ~ENABLED TimerFire
          /\ Len(added) < MaxItems => ENABLED Add
          /\ Len(waiters) < MaxFlushCalls + 1 => ENABLED FlushAfterDestroy
          /\ added' # added =>
                LET e == added'[Len(added')]
                IN  IF Len(batcher.buffer) + 1 < batcher.batchSize
                    THEN /\ batcher'.buffer = Append(batcher.buffer, e)
                         /\ pubs' = pubs
                         /\ sends' = sends
                    ELSE dispatchedInOneSend(Append(batcher.buffer, e))
          /\ Len(waiters') > Len(waiters) =>
                IF batcher.buffer # <<>>
                THEN dispatchedInOneSend(batcher.buffer)
                ELSE pubs' = pubs /\ sends' = sends ]_vars

\* onModuleDestroy has resolved; since then adds have filled a batch that was
\* dispatched by size, and a flush() has dispatched one more item.
C32_Witness ==
    /\ Len(waiters) = 2
    /\ waiters[1].kind = "destroy"
    /\ waiters[1].state = "resolved"
    /\ waiters[2].kind = "flush"
    /\ waiters[2].buffered > 0
    /\ \E p \in autoPubs :
           /\ Len(pubs[p].messages) = batcher.batchSize
           /\ pubs[p].messages[1] > waiters[1].adds
    /\ pubs[Len(pubs)].messages = <<added[Len(added)]>>

\* C33: the batch onModuleDestroy dispatches holds only items added before
\* its call.  An item added later is not covered by the shutdown: it stays
\* in the buffer whatever settles or resolves, the timer being off, and the
\* only steps that take it out are a later flush() call and the add that
\* brings the buffer to batchSize.
C33_LateItemsNotCovered ==
    [][ /\ \A w \in 1..Len(waiters) :
              (waiters[w].kind = "destroy" /\ waiters[w].buffered > 0) =>
                  \A i \in Range(sends[waiters[w].sent + 1].messages) :
                      i <= waiters[w].adds
        /\ "destroy" \in hooks =>
              IF Len(waiters') > Len(waiters)
              THEN batcher'.buffer = <<>>
              ELSE IF added' # added
                      /\ Len(batcher.buffer) + 1 >= batcher.batchSize
              THEN batcher'.buffer = <<>>
              ELSE /\ Len(pubs') = Len(pubs)
                   /\ Len(sends') = Len(sends)
                   /\ \A k \in 1..Len(batcher.buffer) :
                          /\ k <= Len(batcher'.buffer)
                          /\ batcher'.buffer[k] = batcher.buffer[k] ]_vars

\* onModuleDestroy dispatched a batch and has resolved, every send call has
\* settled, and an item added while it was waiting is still in the buffer.
C33_Witness ==
    \E w \in 1..Len(waiters) :
        /\ waiters[w].kind = "destroy"
        /\ waiters[w].buffered > 0
        /\ waiters[w].state = "resolved"
        /\ \A s \in 1..Len(sends) : sends[s].state # "pending"
        /\ inflight = {}
        /\ batcher.buffer # <<>>
        /\ \A i \in Range(batcher.buffer) : i > waiters[w].adds

\* C34: every send call in flight settling sooner or later, with success,
\* with failed entries or by rejecting, a flush() or onModuleDestroy() that
\* is waiting for the drain eventually resolves; and while it waits add and
\* flush are still possible.
C34_ShutdownTerminates ==
    /\ \A w \in 1..(MaxFlushCalls + 1) :
           (Len(waiters) >= w /\ waiters[w].state = "waiting")
               ~> (Len(waiters) >= w /\ waiters[w].state = "resolved")
    /\ [](\A w \in 1..Len(waiters) :
              waiters[w].state = "waiting" =>
                  /\ Len(added) < MaxItems => ENABLED Add
                  /\ Len(waiters) < MaxFlushCalls => ENABLED Flush
                  /\ ("destroy" \in hooks /\ Len(waiters) < MaxFlushCalls + 1)
                         => ENABLED FlushAfterDestroy)

\* onModuleDestroy has resolved after a send call of its drain has rejected.
C34_Witness ==
    \E w \in 1..Len(waiters) :
        /\ waiters[w].kind = "destroy"
        /\ waiters[w].buffered > 0
        /\ waiters[w].state = "resolved"
        /\ sends[waiters[w].sent + 1].state = "rejected"

====
